---- MODULE Spec2Model ----
(***************************************************************************)
(* The MCP proxy worker: a GitHub-backed OAuth 2.0 authorization-code flow *)
(* in front of a credential-translating proxy.                             *)
(*                                                                         *)
(* The state is the worker's two module-level maps (tokens, pendingAuth),  *)
(* the wall clock, the /callback requests suspended at an await, and the   *)
(* response written by the step that led to the current state.  Three      *)
(* history variables record what was created, so that a flow can still be  *)
(* traced after the code has deleted its entries.                          *)
(***************************************************************************)
EXTENDS Integers, Sequences, FiniteSets, TLC

\* ----------------------------------------------------------------- bounds
\* crypto.randomUUID() values drawn in one behaviour
MaxIds == 4
\* /authorize requests admitted in one behaviour: a flow draws a correlation id
\* and then a code
MaxSessions == MaxIds \div 2
\* /callback requests suspended at an await at the same time
MaxInflight == 2
\* times the clock is observed to have moved between requests
MaxTicks == 2
\* the longest ALLOWED_USERS text; logins are one character shorter
MaxLen == 3

\* ------------------------------------------------------ program constants
CodeTtlMs == 600000
ExpiresIn == 3600

VARIABLES
    worker,           \* which worker source is deployed
    env,              \* Env bindings
    now,              \* Date.now()
    ticks,            \* how many times the clock has moved
    nextUuid,         \* how many UUIDs crypto.randomUUID() has returned, plus one
    pendingAuth,      \* Map authId -> { redirectUri, state, codeChallenge }
    tokens,           \* Map "code:<c>" | "token:<t>" -> { userId, expiresAt }
    callbacks,        \* requests whose handler is suspended at an await
    last,             \* the request answered by the last step, and its response
    createdSessions,  \* history: every session handleAuthorize stored
    mintedCodes,      \* history: every code handleGitHubCallback stored
    issuedTokens      \* history: every token response handleToken returned

vars == <<worker, env, now, ticks, nextUuid, pendingAuth, tokens, callbacks, last,
          createdSessions, mintedCodes, issuedTokens>>

\* ------------------------------------------------------------ JS values
\* null / undefined: what searchParams.get, headers.get and Map.get give for
\* a missing key
Null == "<null>"

OnlyNull(v) == v = Null

\* !v for a string-or-null v
Falsy(v) == v = Null \/ v = ""

\* the n-th value returned by crypto.randomUUID(): fresh and opaque
Uuid(n) == "uuid-" \o ToString(n)

\* every UUID returned so far
Generated == { Uuid(n) : n \in 1..(nextUuid - 1) }

\* Map.get / Map.set / Map.delete
MapGet(m, k) == IF k \in DOMAIN m THEN m[k] ELSE Null
MapSet(m, k, v) == [x \in DOMAIN m \cup {k} |-> IF x = k THEN v ELSE m[x]]
MapDelete(m, k) == [x \in DOMAIN m \ {k} |-> m[x]]
EmptyMap == [x \in {} |-> Null]

\* --------------------------------------------------------------- strings
\* Identifiers whose characters matter (logins, ALLOWED_USERS) are sequences
\* of one-character strings.
UpperToLower == [c \in {"A", "B", "E", "L", "O", "V"} |->
                   CASE c = "A" -> "a" [] c = "B" -> "b" [] c = "E" -> "e"
                     [] c = "L" -> "l" [] c = "O" -> "o" [] c = "V" -> "v"]

KeepCase(s) == s

\* String.prototype.toLowerCase
ToLowerCase(s) == [i \in 1..Len(s) |->
                     IF s[i] \in DOMAIN UpperToLower THEN UpperToLower[s[i]] ELSE s[i]]

\* String.prototype.trim
RECURSIVE TrimStart(_)
TrimStart(s) == IF s # <<>> /\ Head(s) = " " THEN TrimStart(Tail(s)) ELSE s
RECURSIVE TrimEnd(_)
TrimEnd(s) == IF s # <<>> /\ s[Len(s)] = " " THEN TrimEnd(SubSeq(s, 1, Len(s) - 1)) ELSE s
Trim(s) == TrimEnd(TrimStart(s))

\* String.prototype.split(","): the pieces between commas, in order
RECURSIVE SplitComma(_)
SplitComma(s) ==
    IF \E i \in 1..Len(s) : s[i] = ","
    THEN LET i == CHOOSE j \in 1..Len(s) :
                    s[j] = "," /\ \A k \in 1..(j - 1) : s[k] # ","
         IN  <<SubSeq(s, 1, i - 1)>> \o SplitComma(SubSeq(s, i + 1, Len(s)))
    ELSE <<s>>

\* Array.prototype.includes
Includes(arr, x) == \E i \in 1..Len(arr) : arr[i] = x

\* ------------------------------------------------------------ responses
\* The response a request gets.  An exception that escapes the handler is
\* answered by the runtime with its own error page.
Response(status, headers, body) == [status |-> status, headers |-> headers, body |-> body]
Text(parts) == [kind |-> "text", parts |-> parts]
Json(obj) == [kind |-> "json", obj |-> obj]
NoHeaders == EmptyMap
JsonHeaders == [h \in {"content-type"} |-> "application/json"]
Redirect(location) == Response(302, [h \in {"location"} |-> location], Text(<<>>))
Uncaught(what) == Response(500, NoHeaders, [kind |-> "exception", what |-> what])

\* what the last step sent to the backend, if anything
NoBackendRequest == [sent |-> FALSE]

\* what the identity provider told the last step, if anything
NoIdentity == [known |-> FALSE]

NoRequest == [op |-> "none"]
Answered(op, req, resp) ==
    [op |-> op, req |-> req, resp |-> resp, backend |-> NoBackendRequest,
     identity |-> NoIdentity]
Proxied(op, req, backendRequest, resp) ==
    [op |-> op, req |-> req, resp |-> resp, backend |-> backendRequest,
     identity |-> NoIdentity]
Identified(op, req, login, resp) ==
    [op |-> op, req |-> req, resp |-> resp, backend |-> NoBackendRequest,
     identity |-> [known |-> TRUE, login |-> login]]

\* ------------------------------------------------------------------ Init
GitHubLogins == { <<"A", "L">>, <<"e", "v", "e">>, <<>> }
AllowedUsersConfigs == { <<"A", "l", ",", " ", "b", "o", " ">> }
McpSecret == "mcp-secret"
GitHubClientSecret == "gh-client-secret"

Workers == {"github", "demo", "provider"}

\* a fresh instance of worker w, configured with one of the given allow-lists
StartWith(w, configs) ==
    /\ worker = w
    /\ env \in { [ALLOWED_USERS |-> a, MCP_SECRET |-> McpSecret,
                      GITHUB_CLIENT_SECRET |-> GitHubClientSecret] : a \in configs }
    /\ now = 0
    /\ ticks = 0
    /\ nextUuid = 1
    /\ pendingAuth = EmptyMap
    /\ tokens = EmptyMap
    /\ callbacks = {}
    /\ last = NoRequest
    /\ createdSessions = EmptyMap
    /\ mintedCodes = EmptyMap
    /\ issuedTokens = {}

Start(w) == StartWith(w, AllowedUsersConfigs)

\* the GitHub worker
Init == Start("github")

\* any of the three worker sources
InitWorkers == \E w \in Workers : Start(w)

\* ------------------------------------------------------------ /authorize
AuthorizeRequests ==
    { [redirect_uri |-> "https://client/cb", state |-> "xyz", code_challenge |-> Null],
      [redirect_uri |-> "https://other/cb", state |-> "abc", code_challenge |-> "challenge-1"],
      [redirect_uri |-> Null, state |-> "xyz", code_challenge |-> Null],
      [redirect_uri |-> "https://client/cb", state |-> Null, code_challenge |-> Null],
      [redirect_uri |-> "https://client/cb", state |-> "", code_challenge |-> "challenge-1"] }

GitHubAuthorizeUrl(authId) ==
    [base |-> "https://github.com/login/oauth/authorize",
     params |-> [client_id |-> "github-client-id", redirect_uri |-> "/callback",
                 state |-> authId, scope |-> "read:user"]]

HandleAuthorize(req) ==
    LET redirectUri == req.redirect_uri
        state == req.state
        codeChallenge == req.code_challenge
    IN  IF Falsy(redirectUri) \/ Falsy(state)
        THEN /\ last' = Answered("authorize", req,
                                 Response(400, NoHeaders, Text(<<"Missing required parameters">>)))
             /\ UNCHANGED <<nextUuid, pendingAuth, createdSessions>>
        ELSE /\ nextUuid <= MaxIds
             /\ Cardinality(DOMAIN createdSessions) < MaxSessions
             /\ LET authId == Uuid(nextUuid)
                    session == [redirectUri |-> redirectUri, state |-> state,
                                codeChallenge |-> codeChallenge]
                IN  /\ nextUuid' = nextUuid + 1
                    /\ pendingAuth' = MapSet(pendingAuth, authId, session)
                    /\ createdSessions' = MapSet(createdSessions, authId,
                                                 [session |-> session, createdAt |-> now])
                    /\ last' = Answered("authorize", req, Redirect(GitHubAuthorizeUrl(authId)))

Authorize ==
    /\ worker = "github"
    /\ \E req \in AuthorizeRequests : HandleAuthorize(req)
    /\ UNCHANGED <<worker, env, now, ticks, tokens, callbacks, mintedCodes, issuedTokens>>

\* ------------------------------------------------------------- /callback
\* env.ALLOWED_USERS.split(",").map(u => u.trim().toLowerCase())
AllowedUsers(allowedUsersStr) ==
    LET pieces == SplitComma(allowedUsersStr)
    IN  [i \in 1..Len(pieces) |-> ToLowerCase(Trim(pieces[i]))]

AdmitsEveryone(allowedUsersStr, login) == TRUE

\* allowedUsers.includes(userData.login.toLowerCase())
IsAllowedUser(allowedUsersStr, login) ==
    Includes(AllowedUsers(allowedUsersStr), ToLowerCase(login))

\* what GitHub may hand to /callback as ?code= and ?state=
CallbackRequests ==
    { [code |-> "gh-code", state |-> s] : s \in Generated \cup {"junk", Null} }
      \cup { [code |-> Null, state |-> s] : s \in DOMAIN pendingAuth }

\* the JSON GitHub answers the code exchange with
GitHubTokenResponses ==
    { [access_token |-> "gho-token", error |-> Null],
      [access_token |-> Null, error |-> "bad_verification_code"],
      [access_token |-> Null, error |-> Null] }

\* new URL(s) throws a TypeError unless s parses as an absolute URL
ValidUrls == { "https://client/cb", "https://other/cb" }

KeepPending(m, authId) == m

\* pendingAuth.delete(authId)
ConsumePending(m, authId) == MapDelete(m, authId)

EchoCorrelationId(pending, authId, ourCode) ==
    [base |-> pending.redirectUri, params |-> [code |-> ourCode, state |-> authId]]

\* new URL(pending.redirectUri) with ?code= and ?state= set
ClientRedirectUrl(pending, authId, ourCode) ==
    [base |-> pending.redirectUri, params |-> [code |-> ourCode, state |-> pending.state]]

\* lines 193-206: handleGitHubCallback up to the first await
HandleGitHubCallback(req) ==
    LET code == req.code
        authId == req.state
    IN  IF Falsy(code) \/ Falsy(authId)
        THEN /\ last' = Answered("callback", req,
                                 Response(400, NoHeaders, Text(<<"Missing code or state">>)))
             /\ UNCHANGED <<pendingAuth, callbacks>>
        ELSE IF authId \notin DOMAIN pendingAuth
        THEN /\ last' = Answered("callback", req,
                                 Response(400, NoHeaders,
                                          Text(<<"Invalid or expired auth session">>)))
             /\ UNCHANGED <<pendingAuth, callbacks>>
        ELSE /\ Cardinality(callbacks) < MaxInflight
             /\ pendingAuth' = ConsumePending(pendingAuth, authId)
             /\ callbacks' = callbacks \cup
                   { [req |-> req, pending |-> pendingAuth[authId], awaiting |-> "token"] }
             /\ last' = NoRequest

CallbackStart ==
    /\ worker = "github"
    /\ \E req \in CallbackRequests : HandleGitHubCallback(req)
    /\ UNCHANGED <<worker, env, now, ticks, nextUuid, tokens, createdSessions, mintedCodes,
                   issuedTokens>>

\* lines 208-225: GitHub answers the code exchange
CallbackTokenResponse ==
    /\ \E cb \in callbacks :
         /\ cb.awaiting = "token"
         /\ \/ \E tokenData \in GitHubTokenResponses :
                 IF Falsy(tokenData.access_token)
                 THEN /\ callbacks' = callbacks \ {cb}
                      /\ last' = Answered("callback", cb.req,
                            Response(400, NoHeaders,
                                     Text(<<"GitHub OAuth failed: ",
                                            IF Falsy(tokenData.error) THEN "unknown error"
                                            ELSE tokenData.error>>)))
                 ELSE /\ callbacks' = (callbacks \ {cb}) \cup {[cb EXCEPT !.awaiting = "user"]}
                      /\ last' = NoRequest
            \/ \* fetch rejects, or the answer is not JSON
               /\ callbacks' = callbacks \ {cb}
               /\ last' = Answered("callback", cb.req, Uncaught("fetch failed"))
    /\ UNCHANGED <<worker, env, now, ticks, nextUuid, pendingAuth, tokens, createdSessions,
                   mintedCodes, issuedTokens>>

\* `code:${code}`: the key of an authorization code
CodeKey(code) == "code:" \o code

SharedKey(token) == "code:" \o token

\* `token:${accessToken}`: the key of an access token
TokenKey(token) == "token:" \o token

AcceptsAnyLogin(login) == FALSE

\* !userData.login
MissingLogin(login) == login = <<>>

\* lines 227-262: GitHub answers the profile request
CallbackUserResponse ==
    /\ \E cb \in callbacks :
         /\ cb.awaiting = "user"
         /\ callbacks' = callbacks \ {cb}
         /\ \/ \E login \in GitHubLogins :
                 IF MissingLogin(login)
                 THEN /\ last' = Answered("callback", cb.req,
                            Response(400, NoHeaders, Text(<<"Failed to get GitHub user info">>)))
                      /\ UNCHANGED <<nextUuid, tokens, mintedCodes>>
                 ELSE IF ~IsAllowedUser(env.ALLOWED_USERS, login)
                 THEN /\ last' = Identified("callback", cb.req, login,
                            Response(403, NoHeaders,
                                     [kind |-> "text",
                                      parts |-> <<"Access denied. User '", "${userData.login}",
                                                  "' is not authorized.">>,
                                      login |-> login]))
                      /\ UNCHANGED <<nextUuid, tokens, mintedCodes>>
                 ELSE /\ nextUuid <= MaxIds
                      /\ LET ourCode == Uuid(nextUuid)
                         IN  /\ nextUuid' = nextUuid + 1
                             /\ tokens' = MapSet(tokens, CodeKey(ourCode),
                                                 [userId |-> login,
                                                  expiresAt |-> now + CodeTtlMs])
                             /\ mintedCodes' = MapSet(mintedCodes, ourCode,
                                                      [authId |-> cb.req.state, login |-> login])
                             /\ last' = Identified("callback", cb.req, login,
                                   IF cb.pending.redirectUri \in ValidUrls
                                   THEN Redirect(ClientRedirectUrl(cb.pending, cb.req.state,
                                                                   ourCode))
                                   ELSE Uncaught("TypeError: Invalid URL"))
            \/ \* fetch rejects, or the answer is not JSON
               /\ last' = Answered("callback", cb.req, Uncaught("fetch failed"))
               /\ UNCHANGED <<nextUuid, tokens, mintedCodes>>
    /\ UNCHANGED <<worker, env, now, ticks, pendingAuth, createdSessions, issuedTokens>>

\* ---------------------------------------------------------------- /token
Pair(name, value) == [name |-> name, value |-> value]

\* a request body carrying the given parameters, the absent ones left out
TokenBody(syntax, grantType, code, codeVerifier, refreshToken) ==
    [syntax |-> syntax,
     pairs |-> SelectSeq(<<Pair("grant_type", grantType), Pair("code", code),
                           Pair("code_verifier", codeVerifier),
                           Pair("refresh_token", refreshToken)>>,
                         LAMBDA p : p.value # Null)]

TokenRequest(method, contentType, body) ==
    [method |-> method, contentType |-> contentType, body |-> body]

FormType == "application/x-www-form-urlencoded"
JsonType == "application/json"

IssuedAccessTokens == { i.access_token : i \in issuedTokens }
IssuedRefreshTokens == { i.refresh_token : i \in issuedTokens }

TokenRequests ==
    { TokenRequest("POST", JsonType,
                   TokenBody("json", "authorization_code", c, Null, Null)) :
        c \in DOMAIN mintedCodes }
    \cup { TokenRequest("POST", FormType,
                        TokenBody("form", "authorization_code", c, v, Null)) :
             c \in DOMAIN mintedCodes, v \in {"verifier-1", "verifier-2"} }
    \cup { TokenRequest("POST", FormType,
                        TokenBody("form", "authorization_code", c, Null, Null)) :
             c \in {Null, "", "junk"} \cup DOMAIN pendingAuth \cup IssuedAccessTokens }
    \cup { TokenRequest("POST", FormType,
                        TokenBody("form", "refresh_token", Null, Null, r)) :
             r \in IssuedRefreshTokens }
    \cup { TokenRequest("POST", FormType,
                        TokenBody("form", "client_credentials", c, Null, Null)) :
             c \in DOMAIN mintedCodes }
    \cup { TokenRequest("GET", FormType,
                        TokenBody("form", "authorization_code", c, Null, Null)) :
             c \in DOMAIN mintedCodes }
    \cup { TokenRequest("GET", JsonType,
                        TokenBody("form", "authorization_code", "junk", Null, Null)) }
    \cup { TokenRequest("POST", ct, TokenBody(syntax, "authorization_code", c, Null, Null)) :
             c \in DOMAIN mintedCodes,
             ct \in {JsonType}, syntax \in {"form"} }

\* contentType.includes("application/json")
IncludesJson(contentType) == contentType = JsonType

\* new URLSearchParams(record): one entry per key of the parsed object, which
\* holds the last value the JSON text gave that key
ObjectEntries(pairs) ==
    LET keep == { i \in 1..Len(pairs) :
                    \A j \in (i + 1)..Len(pairs) : pairs[j].name # pairs[i].name }
        F[i \in 0..Len(pairs)] ==
            IF i = 0 THEN <<>>
            ELSE IF i \in keep THEN Append(F[i - 1], pairs[i]) ELSE F[i - 1]
    IN  F[Len(pairs)]

\* the text of a JSON object read as form data: it has no name=value part, so
\* the whole text is one name with an empty value
JsonText == "{json}"

ParsesAsForm(contentType, body) ==
    [ok |-> TRUE,
     params |-> IF body.syntax = "json" THEN <<Pair(JsonText, "")>> ELSE body.pairs]

\* lines 132-140: the parameters of the body, or the exception request.json()
\* throws on a body that is not JSON
ParseParams(contentType, body) ==
    IF IncludesJson(contentType)
    THEN IF body.syntax = "json"
         THEN [ok |-> TRUE, params |-> ObjectEntries(body.pairs)]
         ELSE [ok |-> FALSE, params |-> <<>>]
    ELSE [ok |-> TRUE,
          params |-> IF body.syntax = "json" THEN <<Pair(JsonText, "")>> ELSE body.pairs]

\* URLSearchParams.get: the first value of the name, or null
ParamsGet(params, name) ==
    IF \E i \in 1..Len(params) : params[i].name = name
    THEN params[CHOOSE i \in 1..Len(params) :
                    /\ params[i].name = name
                    /\ \A j \in 1..(i - 1) : params[j].name # name].value
    ELSE Null

IgnoresCodeExpiry(store, key, t) == key \notin DOMAIN store

\* !codeData || codeData.expiresAt < Date.now()
CodeInvalid(store, key, t) == key \notin DOMAIN store \/ store[key].expiresAt < t

KeepCode(store, key) == store

\* tokens.delete(`code:${code}`)
ConsumeCode(store, key) == MapDelete(store, key)

ExpiresAtInSeconds(t, expiresIn) == t + expiresIn

\* Date.now() + expiresIn * 1000
ExpiresAt(t, expiresIn) == t + expiresIn * 1000

RevokesOlderTokens(store, accessToken, userId, expiresAt) ==
    LET others == { k \in DOMAIN store : store[k].userId = userId }
    IN  MapSet([k \in DOMAIN store \ others |-> store[k]], TokenKey(accessToken),
               [userId |-> userId, expiresAt |-> expiresAt])

\* lines 166-169: tokens.set(`token:${accessToken}`, {userId, expiresAt})
StoreToken(store, accessToken, userId, expiresAt) ==
    MapSet(store, TokenKey(accessToken), [userId |-> userId, expiresAt |-> expiresAt])

InvalidGrant == Response(400, JsonHeaders, Json([error |-> "invalid_grant"]))
UnsupportedGrantType == Response(400, JsonHeaders, Json([error |-> "unsupported_grant_type"]))
TokenResponseHeaders ==
    [h \in {"content-type", "access-control-allow-origin"} |->
        IF h = "content-type" THEN "application/json" ELSE "*"]

AnyMethod(method) == TRUE

\* request.method !== "POST" is refused
MethodAllowed(method) == method = "POST"

AnyGrantWithCode(grantType, code) == ~Falsy(code)

\* grantType === "authorization_code" && code
IsCodeGrant(grantType, code) == grantType = "authorization_code" /\ ~Falsy(code)

\* what a call of handleToken does: its response, the store it leaves, how
\* many UUIDs it drew and the token responses it granted
Outcome(resp, store, uuids, granted) ==
    [resp |-> resp, tokens |-> store, uuids |-> uuids, granted |-> granted]

\* handleToken as a function of the request, the store, Date.now() and the
\* next UUIDs
TokenOutcome(req, store, t, n) ==
    IF ~MethodAllowed(req.method)
    THEN Outcome(Response(405, NoHeaders, Text(<<"Method not allowed">>)), store, 0, {})
    ELSE LET parsed == ParseParams(req.contentType, req.body)
             grantType == ParamsGet(parsed.params, "grant_type")
             code == ParamsGet(parsed.params, "code")
             key == CodeKey(code)
         IN  IF ~parsed.ok
             THEN Outcome(Uncaught("SyntaxError: not JSON"), store, 0, {})
             ELSE IF IsCodeGrant(grantType, code)
             THEN IF CodeInvalid(store, key, t)
                  THEN Outcome(InvalidGrant, store, 0, {})
                  ELSE LET codeData == store[key]
                           accessToken == Uuid(n)
                           refreshToken == Uuid(n + 1)
                           granted == [access_token |-> accessToken,
                                       token_type |-> "Bearer",
                                       expires_in |-> ExpiresIn,
                                       refresh_token |-> refreshToken]
                       IN  Outcome(Response(200, TokenResponseHeaders, Json(granted)),
                                   StoreToken(ConsumeCode(store, key), accessToken,
                                              codeData.userId, ExpiresAt(t, ExpiresIn)),
                                   2,
                                   { granted @@ [code |-> code,
                                                 userId |-> codeData.userId,
                                                 issuedAt |-> t] })
             ELSE Outcome(UnsupportedGrantType, store, 0, {})

HandleToken(req) ==
    LET o == TokenOutcome(req, tokens, now, nextUuid)
    IN  /\ nextUuid + o.uuids - 1 <= MaxIds
        /\ nextUuid' = nextUuid + o.uuids
        /\ tokens' = o.tokens
        /\ issuedTokens' = issuedTokens \cup o.granted
        /\ last' = Answered("token", req, o.resp)

Token ==
    /\ worker \in {"github", "demo"}
    /\ \E req \in TokenRequests : HandleToken(req)
    /\ UNCHANGED <<worker, env, now, ticks, pendingAuth, callbacks, createdSessions,
                   mintedCodes>>

\* ------------------------------------------------------------------ /mcp
\* Headers: names are case-insensitive, so they are kept in lower case
HeadersGet(h, name) == IF name \in DOMAIN h THEN h[name] ELSE Null
HeadersSet(h, name, value) == [n \in DOMAIN h \cup {name} |-> IF n = name THEN value ELSE h[n]]
HeadersDelete(h, name) == [n \in DOMAIN h \ {name} |-> h[n]]

\* what a client may write after "Bearer "
Credentials == Generated \cup IssuedAccessTokens \cup {"junk"}

\* authHeader?.startsWith("Bearer ")
StartsWithBearer(authHeader) ==
    authHeader # Null /\ \E t \in Credentials : authHeader = "Bearer " \o t

\* authHeader.slice(7)
Slice7(authHeader) == CHOOSE t \in Credentials : authHeader = "Bearer " \o t

\* method, body and the headers beside Authorization
McpShapes ==
    { [method |-> "GET", body |-> "empty", headers |-> NoHeaders],
      [method |-> "POST", body |-> "json",
       headers |-> [n \in {"content-type", "x-mcp-secret"} |->
                      IF n = "content-type" THEN "application/json" ELSE "forged-secret"]],
      [method |-> "POST", body |-> "stream",
       headers |-> [n \in {"host", "connection", "transfer-encoding"} |->
                      IF n = "host" THEN "worker.example"
                      ELSE IF n = "connection" THEN "keep-alive" ELSE "chunked"]],
      [method |-> "DELETE", body |-> "empty",
       headers |-> [n \in {"keep-alive"} |-> "timeout=5"]] }

McpRequest(shape, authorization) ==
    [method |-> shape.method, body |-> shape.body,
     headers |-> IF authorization = Null THEN shape.headers
                 ELSE HeadersSet(shape.headers, "authorization", authorization)]

McpRequests ==
    { McpRequest(shape, "Bearer " \o t) : shape \in McpShapes, t \in IssuedAccessTokens }
    \cup { McpRequest(shape, a) :
             shape \in { sh \in McpShapes : sh.method = "POST" /\ sh.body = "json" },
             a \in {Null, "Basic dXNlcg==", "Bearer junk"}
                   \cup { "bearer " \o t : t \in IssuedAccessTokens }
                   \cup { "Bearer " \o t : t \in Generated } }

\* what the backend may answer; fetch may also reject
BackendStatuses == {200, 500}

AnyBearerValid(store, key, t) == FALSE

IgnoresTokenExpiry(store, key, t) == key \notin DOMAIN store

\* !tokenData || tokenData.expiresAt < Date.now()
BearerInvalid(store, key, t) == key \notin DOMAIN store \/ store[key].expiresAt < t

\* lines 304-306: the headers of the request sent to the backend
BackendHeaders(requestHeaders, secret) ==
    HeadersDelete(HeadersSet(requestHeaders, "x-mcp-secret", secret), "authorization")

BackendRequest(req, headers) ==
    [sent |-> TRUE, method |-> req.method, headers |-> headers, body |-> req.body]

\* lines 318-325: the backend's answer with the CORS header set
Relayed(status) ==
    Response(status, [h \in {"access-control-allow-origin"} |-> "*"],
             [kind |-> "backend"])

EvictsExpired(store, key, t) ==
    IF key \in DOMAIN store /\ store[key].expiresAt < t THEN MapDelete(store, key) ELSE store

\* lines 285-299: the entry is read with tokens.get; nothing is written, an
\* expired entry included
StoreAfterLookup(store, key, t) == store

AuthErrorWithSecret(message) ==
    Json([jsonrpc |-> "2.0", id |-> "auth-error",
          error |-> [code |-> -32001, message |-> McpSecret]])

AuthError(message) ==
    Json([jsonrpc |-> "2.0", id |-> "auth-error",
          error |-> [code |-> -32001, message |-> message]])

HandleMCPProxy(req) ==
    LET authHeader == HeadersGet(req.headers, "authorization")
    IN  IF ~StartsWithBearer(authHeader)
        THEN /\ tokens' = tokens
             /\ last' = Answered("mcp", req,
                        Response(401,
                                 [h \in {"content-type", "www-authenticate"} |->
                                    IF h = "content-type" THEN "application/json"
                                    ELSE "Bearer realm=\"mcp\""],
                                 AuthError("Missing or invalid Authorization header")))
        ELSE LET token == Slice7(authHeader)
             IN  /\ tokens' = StoreAfterLookup(tokens, TokenKey(token), now)
                 /\ IF BearerInvalid(tokens, TokenKey(token), now)
                    THEN last' = Answered("mcp", req,
                                    Response(401, JsonHeaders,
                                             AuthError("Invalid or expired token")))
                    ELSE LET sent == BackendRequest(req, BackendHeaders(req.headers,
                                                                        env.MCP_SECRET))
                         IN  \/ \E status \in BackendStatuses :
                                   last' = Proxied("mcp", req, sent, Relayed(status))
                             \/ last' = Proxied("mcp", req, sent, Uncaught("fetch failed"))

MCPProxy ==
    /\ worker \in {"github", "demo"}
    /\ \E req \in McpRequests : HandleMCPProxy(req)
    /\ UNCHANGED <<worker, env, now, ticks, nextUuid, pendingAuth, callbacks,
                   createdSessions, mintedCodes, issuedTokens>>

\* ----------------------------------------------------------------- fetch
NeverPreflight(method) == FALSE

\* request.method === "OPTIONS"
IsPreflight(method) == method = "OPTIONS"

\* handleCORS
HandleCORS ==
    Response(204,
             [h \in {"access-control-allow-origin", "access-control-allow-methods",
                     "access-control-allow-headers", "access-control-max-age"} |->
                CASE h = "access-control-allow-origin" -> "*"
                  [] h = "access-control-allow-methods" -> "GET, POST, OPTIONS"
                  [] h = "access-control-allow-headers"
                       -> "Content-Type, Authorization, X-MCP-Secret"
                  [] h = "access-control-max-age" -> "86400"],
             [kind |-> "empty"])

\* a request as the router sees it: the path, the method and what the
\* handler of the path reads from it
Routed(path, method, inner) == [path |-> path, method |-> method, inner |-> inner]

\* OPTIONS requests: to /mcp without credentials and with each issued token,
\* to /token with each minted code, to /callback for each pending session
PreflightRequests ==
    { Routed("/mcp", "OPTIONS",
             McpRequest([method |-> "OPTIONS", body |-> "empty", headers |-> NoHeaders], a)) :
        a \in {Null} \cup { "Bearer " \o t : t \in IssuedAccessTokens } }
    \cup { Routed("/token", "OPTIONS",
                  TokenRequest("OPTIONS", FormType,
                               TokenBody("form", "authorization_code", c, Null, Null))) :
             c \in DOMAIN mintedCodes }
    \cup { Routed("/callback", "OPTIONS", [code |-> "gh-code", state |-> s]) :
             s \in DOMAIN pendingAuth }

\* lines 21-63: the preflight answer, or the handler of the path
Fetch(req) ==
    IF IsPreflight(req.method)
    THEN /\ last' = Answered("options", req, HandleCORS)
         /\ UNCHANGED <<nextUuid, pendingAuth, tokens, callbacks, issuedTokens>>
    ELSE CASE req.path = "/callback" ->
                /\ HandleGitHubCallback(req.inner)
                /\ UNCHANGED <<nextUuid, tokens, issuedTokens>>
           [] req.path = "/token" ->
                /\ HandleToken(req.inner)
                /\ UNCHANGED <<pendingAuth, callbacks>>
           [] req.path = "/mcp" ->
                /\ HandleMCPProxy(req.inner)
                /\ UNCHANGED <<nextUuid, pendingAuth, callbacks, issuedTokens>>
           [] OTHER ->
                /\ last' = Answered("fetch", req,
                                    Response(404, NoHeaders, Text(<<"Not Found">>)))
                /\ UNCHANGED <<nextUuid, pendingAuth, tokens, callbacks, issuedTokens>>

Preflight ==
    /\ worker = "github"
    /\ \E req \in PreflightRequests : Fetch(req)
    /\ UNCHANGED <<worker, env, now, ticks, createdSessions, mintedCodes>>

\* ----------------------------------------------------------------- clock
\* Time passes between requests.  Only the order of the clock and the stored
\* expiries matters to the handlers, so the clock moves to an expiry or to
\* the millisecond after it.
Deadlines == { tokens[k].expiresAt : k \in DOMAIN tokens }
TickTargets == { t \in Deadlines \cup { d + 1 : d \in Deadlines } : t > now }

Tick ==
    /\ ticks < MaxTicks
    /\ ticks' = ticks + 1
    /\ \E t \in TickTargets : now' = t
    /\ last' = NoRequest
    /\ UNCHANGED <<worker, env, nextUuid, pendingAuth, tokens, callbacks,
                   createdSessions, mintedCodes, issuedTokens>>

Next ==
    \/ Authorize
    \/ CallbackStart
    \/ CallbackTokenResponse
    \/ CallbackUserResponse
    \/ Token
    \/ MCPProxy
    \/ Preflight
    \/ Tick

Spec == Init /\ [][Next]_vars

\* The worker takes no step of its own: a handler runs when a request arrives
\* and goes on when an upstream answers.  Only time is sure to pass.
SpecLive == Init /\ [][Next]_vars /\ WF_vars(Tick)

\* ------------------------------------------------- the other worker sources
DemoUser == <<"d", "e", "m", "o", "-", "u", "s", "e", "r">>

DemoAuthorizeRequests ==
    { r @@ [client_id |-> c] : r \in AuthorizeRequests, c \in {"claude"} }
      \cup { [redirect_uri |-> "https://client/cb", state |-> "xyz", code_challenge |-> Null,
              client_id |-> Null] }

\* the demo worker's handleAuthorize: auto-approves and mints the code at once
DemoAuthorize ==
    /\ worker = "demo"
    /\ \E req \in DemoAuthorizeRequests :
         IF Falsy(req.client_id) \/ Falsy(req.redirect_uri) \/ Falsy(req.state)
         THEN /\ last' = Answered("authorize", req,
                                  Response(400, NoHeaders, Text(<<"Missing required parameters">>)))
              /\ UNCHANGED <<nextUuid, tokens, mintedCodes>>
         ELSE /\ nextUuid <= MaxIds
              /\ LET code == Uuid(nextUuid)
                 IN  /\ nextUuid' = nextUuid + 1
                     /\ tokens' = MapSet(tokens, "code:" \o code,
                                         [userId |-> DemoUser, expiresAt |-> now + CodeTtlMs])
                     /\ mintedCodes' = MapSet(mintedCodes, code,
                                              [authId |-> Null, login |-> DemoUser])
                     /\ last' = Answered("authorize", req,
                           IF req.redirect_uri \in ValidUrls
                           THEN Redirect([base |-> req.redirect_uri,
                                          params |-> [code |-> code, state |-> req.state]])
                           ELSE Uncaught("TypeError: Invalid URL"))
    /\ UNCHANGED <<worker, env, now, ticks, pendingAuth, callbacks, createdSessions,
                   issuedTokens>>

\* the demo worker's handleCallback: echoes its parameters
DemoCallback ==
    /\ worker = "demo"
    /\ \E req \in { [code |-> c, state |-> "xyz"] : c \in DOMAIN mintedCodes \cup {Null} } :
         last' = Answered("callback", req,
                    Response(200, [h \in {"content-type"} |-> "text/plain"],
                             Text(<<"Authorization complete. Code: ", req.code,
                                    ", State: ", req.state>>)))
    /\ UNCHANGED <<worker, env, now, ticks, nextUuid, pendingAuth, tokens, callbacks,
                   createdSessions, mintedCodes, issuedTokens>>

KeepsClientSecret(requestHeaders, secret) ==
    HeadersSet(requestHeaders, "x-mcp-secret",
               IF "x-mcp-secret" \in DOMAIN requestHeaders
               THEN requestHeaders["x-mcp-secret"] ELSE secret)

\* the OAuthProvider worker's handleMCPProxy: headers cloned, secret set
ProviderBackendHeaders(requestHeaders, secret) ==
    HeadersSet(requestHeaders, "x-mcp-secret", secret)

\* The OAuthProvider library has checked the bearer token before it calls the
\* API handler, so the request carries one.
ProviderMCPProxy ==
    /\ worker = "provider"
    /\ \E shape \in McpShapes :
         LET req == McpRequest(shape, "Bearer provider-token")
             sent == BackendRequest(req, ProviderBackendHeaders(req.headers, env.MCP_SECRET))
         IN  \/ \E status \in BackendStatuses :
                   last' = Proxied("mcp", req, sent,
                                   Response(status, NoHeaders, [kind |-> "backend"]))
             \/ last' = Proxied("mcp", req, sent, Uncaught("fetch failed"))
    /\ UNCHANGED <<worker, env, now, ticks, nextUuid, pendingAuth, tokens, callbacks,
                   createdSessions, mintedCodes, issuedTokens>>

NextWorkers ==
    \/ Next
    \/ DemoAuthorize
    \/ DemoCallback
    \/ ProviderMCPProxy

SpecWorkers == InitWorkers /\ [][NextWorkers]_vars

\* ------------------------------------------- /token, await by await
\* handleToken suspends once, at `await request.json()` / `await
\* request.text()` (lines 136, 139), before it reads the store; other
\* handlers run while it waits.  Here a POST to /token takes two steps, its
\* arrival and the rest after the body is read, and several can be waiting.
RacingTokenRequests ==
    { TokenRequest("POST", ct[1], TokenBody(ct[2], "authorization_code", c, Null, Null)) :
        ct \in { <<FormType, "form">>, <<JsonType, "json">> }, c \in DOMAIN mintedCodes }

\* lines 127-140: the request arrives and its body is awaited
TokenArrive ==
    /\ worker = "github"
    /\ Cardinality(callbacks) < MaxInflight
    /\ \E req \in RacingTokenRequests :
          /\ MethodAllowed(req.method)
          /\ callbacks' = callbacks \cup {[req |-> req, pending |-> Null, awaiting |-> "body"]}
    /\ last' = NoRequest
    /\ UNCHANGED <<worker, env, now, ticks, nextUuid, pendingAuth, tokens, createdSessions,
                   mintedCodes, issuedTokens>>

\* lines 142-191: the body is there, the handler runs to its end
TokenBodyRead ==
    /\ \E r \in callbacks :
          /\ r.awaiting = "body"
          /\ callbacks' = callbacks \ {r}
          /\ HandleToken(r.req)
    /\ UNCHANGED <<worker, env, now, ticks, pendingAuth, createdSessions, mintedCodes>>

NextTokenRace ==
    \/ Authorize
    \/ CallbackStart
    \/ CallbackTokenResponse
    \/ CallbackUserResponse
    \/ TokenArrive
    \/ TokenBodyRead
    \/ Tick

SpecTokenRace == Init /\ [][NextTokenRace]_vars

\* ------------------------------------------- an empty or blank allow-list
\* The login flow of the GitHub worker deployed with ALLOWED_USERS empty or
\* made of blanks only.
BlankAllowedUsers == { <<>>, <<" ">>, <<" ", " ">> }

InitBlankList == StartWith("github", BlankAllowedUsers)

NextLogin ==
    \/ Authorize
    \/ CallbackStart
    \/ CallbackTokenResponse
    \/ CallbackUserResponse

SpecBlankList == InitBlankList /\ [][NextLogin]_vars

\* ------------------------------------------------- after a first login
\* The GitHub worker after one login has run to its end within the first
\* millisecond: AL's session was consumed, the code redeemed, the access token
\* stored.  The four UUIDs of that login were drawn before the ones counted
\* by nextUuid.
EarlierUuids == <<"uuid-a", "uuid-b", "uuid-c", "uuid-d">>

InitAfterLogin ==
    /\ worker = "github"
    /\ env \in { [ALLOWED_USERS |-> a, MCP_SECRET |-> McpSecret,
                      GITHUB_CLIENT_SECRET |-> GitHubClientSecret] : a \in AllowedUsersConfigs }
    /\ now = 0
    /\ ticks = 0
    /\ nextUuid = 1
    /\ pendingAuth = EmptyMap
    /\ tokens = StoreToken(EmptyMap, EarlierUuids[3], <<"A", "L">>, ExpiresAt(0, ExpiresIn))
    /\ callbacks = {}
    /\ last = NoRequest
    /\ createdSessions = MapSet(EmptyMap, EarlierUuids[1],
                                [session |-> [redirectUri |-> "https://client/cb",
                                              state |-> "xyz", codeChallenge |-> Null],
                                 createdAt |-> 0])
    /\ mintedCodes = MapSet(EmptyMap, EarlierUuids[2],
                            [authId |-> EarlierUuids[1], login |-> <<"A", "L">>])
    /\ issuedTokens = { [access_token |-> EarlierUuids[3], token_type |-> "Bearer",
                         expires_in |-> ExpiresIn, refresh_token |-> EarlierUuids[4],
                         code |-> EarlierUuids[2], userId |-> <<"A", "L">>,
                         issuedAt |-> 0] }

SpecRelogin == InitAfterLogin /\ [][Next]_vars

\* ------------------------------------------------ the allow-list check
\* The allow-list check of handleGitHubCallback on its own, for every short
\* ALLOWED_USERS text and every short login.
SeqsUpTo(S, n) == UNION { [1..k -> S] : k \in 0..n }
AllowListTexts == SeqsUpTo({"a", "A", "b", ",", " "}, MaxLen)
LoginTexts == SeqsUpTo({"a", "A", "B", " "}, MaxLen - 1)

InitAllowList ==
    /\ worker = "github"
    /\ env \in { [ALLOWED_USERS |-> a, MCP_SECRET |-> McpSecret,
                      GITHUB_CLIENT_SECRET |-> GitHubClientSecret] : a \in AllowListTexts }
    /\ now = 0
    /\ ticks = 0
    /\ nextUuid = 1
    /\ pendingAuth = EmptyMap
    /\ tokens = EmptyMap
    /\ callbacks = {}
    /\ last = NoRequest
    /\ createdSessions = EmptyMap
    /\ mintedCodes = EmptyMap
    /\ issuedTokens = {}

\* lines 241-242 applied to one login
CheckAllowList ==
    /\ \E login \in LoginTexts :
          last' = Identified("includes", login, login,
                             IsAllowedUser(env.ALLOWED_USERS, login))
    /\ UNCHANGED <<worker, env, now, ticks, nextUuid, pendingAuth, tokens, callbacks,
                   createdSessions, mintedCodes, issuedTokens>>

SpecAllowList == InitAllowList /\ [][CheckAllowList]_vars

\* ===================================================================
\* Properties
\* ===================================================================

\* the allow-list as configured: the trimmed, case-folded entries
OnAllowList(login) ==
    \E i \in 1..Len(AllowedUsers(env.ALLOWED_USERS)) :
        AllowedUsers(env.ALLOWED_USERS)[i] = ToLowerCase(login)

CodeKeys == { "code:" \o c : c \in Generated }
TokenKeys == { "token:" \o t : t \in Generated }

\* a well-formed authorization_code request, and the code it presents
PresentedCode(req) == ParamsGet(ParseParams(req.contentType, req.body).params, "code")
PresentedGrant(req) == ParamsGet(ParseParams(req.contentType, req.body).params, "grant_type")
PresentedVerifier(req) ==
    ParamsGet(ParseParams(req.contentType, req.body).params, "code_verifier")
PresentedRefreshToken(req) ==
    ParamsGet(ParseParams(req.contentType, req.body).params, "refresh_token")
IsCodeRedemption(req) ==
    /\ req.method = "POST"
    /\ ParseParams(req.contentType, req.body).ok
    /\ PresentedGrant(req) = "authorization_code"
    /\ ~Falsy(PresentedCode(req))

\* the credential of an Authorization header of the form "Bearer <credential>"
IsBearer(req) ==
    /\ "authorization" \in DOMAIN req.headers
    /\ \E t \in Credentials : req.headers["authorization"] = "Bearer " \o t
BearerOf(req) == CHOOSE t \in Credentials : req.headers["authorization"] = "Bearer " \o t

SessionNotFound == Response(400, NoHeaders, Text(<<"Invalid or expired auth session">>))
InvalidToken == Response(401, JsonHeaders, AuthError("Invalid or expired token"))

\* C1: every code and every access token in the store is bound to a principal
\* that is on the allow-list and that a /callback admitted.
C1_StoreBoundToAdmittedPrincipal ==
    \A k \in DOMAIN tokens :
        /\ k \in CodeKeys \cup TokenKeys
        /\ OnAllowList(tokens[k].userId)
        /\ \E c \in DOMAIN mintedCodes :
              /\ mintedCodes[c].login = tokens[k].userId
              /\ mintedCodes[c].authId \in DOMAIN createdSessions

\* C1 witness: the store holds an access token, redeemed from a code.
C1_Witness ==
    \E k \in DOMAIN tokens : k \in TokenKeys

\* the callbacks that found the session of correlation id a, and the codes
\* minted for it
CallbacksOf(a) == { cb \in callbacks : cb.req.state = a }
CodesOf(a) == { c \in DOMAIN mintedCodes : mintedCodes[c].authId = a }

\* C2, state part: a session handleAuthorize created is stored as created
\* while it is pending, and the session, the callbacks that found it and the
\* codes minted for it are at most one thing in all.
C2_SessionConsumedOnce ==
    /\ DOMAIN pendingAuth \subseteq DOMAIN createdSessions
    /\ \A a \in DOMAIN createdSessions :
          /\ a \in DOMAIN pendingAuth => pendingAuth[a] = createdSessions[a].session
          /\ (IF a \in DOMAIN pendingAuth THEN 1 ELSE 0)
               + Cardinality(CallbacksOf(a)) + Cardinality(CodesOf(a)) <= 1

\* C2, step part: a valid /authorize adds exactly one session; a /callback
\* that arrives for a session already consumed is answered "Invalid or
\* expired auth session", starts no verification and mints no code.
C2_ReplayFails ==
    /\ (last'.op = "authorize" /\ last'.resp.status = 302)
          => /\ Cardinality(DOMAIN pendingAuth') = Cardinality(DOMAIN pendingAuth) + 1
             /\ DOMAIN pendingAuth \subseteq DOMAIN pendingAuth'
    /\ \A a \in DOMAIN createdSessions \ DOMAIN pendingAuth :
          /\ a \notin DOMAIN pendingAuth'
          /\ Cardinality(CallbacksOf(a)') <= Cardinality(CallbacksOf(a))
          /\ (last'.op = "callback" /\ last'.req.state = a /\ ~Falsy(last'.req.code)
                /\ CallbacksOf(a) = {})
               => /\ last'.resp = SessionNotFound
                  /\ mintedCodes' = mintedCodes
                  /\ tokens' = tokens

\* C2: a session is created once per valid /authorize, consumed by the first
\* callback that reaches it, and a replayed callback fails without minting.
C2_SessionSingleUse == [](C2_SessionConsumedOnce) /\ [][C2_ReplayFails]_vars

\* C2 witness: a callback replayed after its session produced a code was
\* answered session-not-found.
C2_Witness ==
    /\ last.op = "callback"
    /\ last.resp = SessionNotFound
    /\ CodesOf(last.req.state) # {}

\* the token responses that redeemed code c
RedemptionsOf(c) == { i \in issuedTokens : i.code = c }

\* C3, state part: at most one token response per code, and a redeemed code is
\* no longer in the store.
C3_AtMostOneTokenPerCode ==
    \A c \in DOMAIN mintedCodes :
        /\ Cardinality(RedemptionsOf(c)) <= 1
        /\ RedemptionsOf(c) # {} => ("code:" \o c) \notin DOMAIN tokens

\* C3, step part: redeeming a live code succeeds and deletes it; redeeming a
\* code that was redeemed before is answered invalid_grant and mints nothing.
C3_RedeemStep ==
    (last'.op = "token" /\ IsCodeRedemption(last'.req)) =>
        LET c == PresentedCode(last'.req)
            key == "code:" \o c
        IN  /\ (key \in DOMAIN tokens /\ tokens[key].expiresAt >= now)
                 => /\ last'.resp.status = 200
                    /\ key \notin DOMAIN tokens'
                    /\ Cardinality(issuedTokens') = Cardinality(issuedTokens) + 1
            /\ (c \in DOMAIN mintedCodes /\ RedemptionsOf(c) # {})
                 => /\ last'.resp = InvalidGrant
                    /\ issuedTokens' = issuedTokens
                    /\ tokens' = tokens

\* C3: an authorization code is redeemable exactly once.
C3_CodeSingleUse == [](C3_AtMostOneTokenPerCode) /\ [][C3_RedeemStep]_vars

\* C3 witness: a second redemption of a redeemed code was answered
\* invalid_grant.
C3_Witness ==
    /\ last.op = "token"
    /\ IsCodeRedemption(last.req)
    /\ RedemptionsOf(PresentedCode(last.req)) # {}
    /\ last.resp = InvalidGrant

\* the bearer token of the request is in the store and not expired
BearerLive(req) ==
    /\ IsBearer(req)
    /\ ("token:" \o BearerOf(req)) \in DOMAIN tokens
    /\ tokens["token:" \o BearerOf(req)].expiresAt >= now

\* C4: the proxy sends a request to the backend only for a bearer token that
\* is in the store and not expired; every other /mcp request gets 401 and
\* nothing is sent.  (The proxy changes neither the store nor the clock, so
\* the state after the request is the state the request saw.)
C4_ForwardOnlyLiveToken ==
    last.op = "mcp" =>
        /\ last.backend.sent => BearerLive(last.req)
        /\ ~BearerLive(last.req) => (last.resp.status = 401 /\ ~last.backend.sent)

\* C4 witness: a request with a live token was forwarded, after the clock
\* had moved.
C4_Witness ==
    /\ last.op = "mcp"
    /\ last.backend.sent
    /\ now > 0

\* C5: a callback whose identity is not on the allow-list is answered 403
\* naming the identifier, without a Location header, and no code is minted
\* for its session or for that identity.
C5_DeniedGetsNothing ==
    /\ (last.op = "callback" /\ last.identity.known /\ ~OnAllowList(last.identity.login))
          => /\ last.resp.status = 403
             /\ last.resp.body.login = last.identity.login
             /\ "location" \notin DOMAIN last.resp.headers
             /\ CodesOf(last.req.state) = {}
    /\ \A c \in DOMAIN mintedCodes : OnAllowList(mintedCodes[c].login)

\* C5 witness: a callback was denied.
C5_Witness ==
    /\ last.op = "callback"
    /\ last.identity.known
    /\ ~OnAllowList(last.identity.login)

\* C6 (as claimed): every request sent to the backend, by any proxy handler,
\* lacks the Authorization header and carries the configured X-MCP-Secret.
C6_NeverForwardsAuthorization ==
    (last.op = "mcp" /\ last.backend.sent) =>
        /\ "authorization" \notin DOMAIN last.backend.headers
        /\ HeadersGet(last.backend.headers, "x-mcp-secret") = env.MCP_SECRET

\* C7: a /token request with an expired code and a /mcp request with an
\* expired token get the response an unknown code or token gets, and leave
\* the store as it was.
C7_ExpiredStep ==
    /\ (last'.op = "token" /\ IsCodeRedemption(last'.req)) =>
          LET key == "code:" \o PresentedCode(last'.req)
          IN  (key \notin DOMAIN tokens \/ tokens[key].expiresAt < now)
                 => /\ last'.resp = InvalidGrant
                    /\ tokens' = tokens
                    /\ pendingAuth' = pendingAuth
    /\ (last'.op = "mcp" /\ IsBearer(last'.req)) =>
          LET key == "token:" \o BearerOf(last'.req)
          IN  (key \notin DOMAIN tokens \/ tokens[key].expiresAt < now)
                 => /\ last'.resp = InvalidToken
                    /\ ~last'.backend.sent
                    /\ tokens' = tokens
                    /\ pendingAuth' = pendingAuth

C7_ExpiredLikeUnknown == [][C7_ExpiredStep]_vars

\* C7 witness: an expired code, still in the store, was presented at /token.
C7_Witness ==
    /\ last.op = "token"
    /\ IsCodeRedemption(last.req)
    /\ ("code:" \o PresentedCode(last.req)) \in DOMAIN tokens
    /\ tokens["code:" \o PresentedCode(last.req)].expiresAt < now
    /\ last.resp = InvalidGrant

\* the S256 transform of a verifier, on the verifiers the requests use
S256(verifier) ==
    CASE verifier = "verifier-1" -> "challenge-1"
      [] verifier = "verifier-2" -> "challenge-2"
      [] OTHER -> Null

\* the PKCE challenge of the session a code was minted for
ChallengeOf(c) == createdSessions[mintedCodes[c].authId].session.codeChallenge

\* C8 (as claimed): a code of a flow that supplied a code_challenge is
\* redeemed only with a code_verifier whose hash is that challenge.
C8_PkceEnforced ==
    (last.op = "token" /\ last.resp.status = 200
       /\ ChallengeOf(PresentedCode(last.req)) # Null)
      => /\ PresentedVerifier(last.req) # Null
         /\ S256(PresentedVerifier(last.req)) = ChallengeOf(PresentedCode(last.req))

\* C9 (as claimed): a refresh token returned by /token, presented with
\* grant_type=refresh_token, yields an access token.
C9_RefreshTokenExchangeable ==
    (last.op = "token" /\ last.req.method = "POST"
       /\ PresentedGrant(last.req) = "refresh_token"
       /\ PresentedRefreshToken(last.req) \in IssuedRefreshTokens)
      => last.resp.status = 200

\* C10: a successful callback redirects to the redirect URI of the session its
\* correlation id names, with that session's client state and with the code
\* just minted for that session.
C10_RedirectToOwnSession ==
    (last.op = "callback" /\ last.resp.status = 302) =>
        LET a == last.req.state
            to == last.resp.headers["location"]
        IN  /\ a \in DOMAIN createdSessions
            /\ to.base = createdSessions[a].session.redirectUri
            /\ to.params.state = createdSessions[a].session.state
            /\ to.params.code \in CodesOf(a)
            /\ ("code:" \o to.params.code) \in DOMAIN tokens

\* C10 witness: a callback was redirected while the callback of another
\* flow, with another redirect URI and state, was still awaiting GitHub.
C10_Witness ==
    /\ last.op = "callback"
    /\ last.resp.status = 302
    /\ \E cb \in callbacks :
          /\ cb.pending.redirectUri # last.resp.headers["location"].base
          /\ cb.pending.state # last.resp.headers["location"].params.state

\* the time a PendingAuthSession may live: 10 minutes
SessionTtlMs == 600000

\* C11 (as claimed): a session older than its TTL is treated as absent, so no
\* callback finds it and starts verification for it.
C11_StaleSessionStep ==
    \A a \in DOMAIN pendingAuth :
        now > createdSessions[a].createdAt + SessionTtlMs
          => /\ CallbacksOf(a)' = {}
             /\ CodesOf(a)' = {}

C11_SessionTtlEnforced == [][C11_StaleSessionStep]_vars

\* a required parameter that is absent or empty
Missing(v) == v \in {Null, ""}

\* nothing a request can change has changed
StoresUnchanged ==
    UNCHANGED <<pendingAuth, tokens, callbacks, nextUuid, createdSessions, mintedCodes,
                issuedTokens>>

\* C12: a request to /authorize without redirect_uri or state, or to /callback
\* without code or state, is answered 400 (never a redirect) and changes no
\* state: no session is created or consumed and no code is minted.
C12_ClientErrorStep ==
    /\ ( /\ last'.op = "authorize"
         /\ Missing(last'.req.redirect_uri) \/ Missing(last'.req.state) )
        => /\ last'.resp.status = 400
           /\ "location" \notin DOMAIN last'.resp.headers
           /\ StoresUnchanged
    /\ ( /\ last'.op = "callback"
         /\ Missing(last'.req.code) \/ Missing(last'.req.state) )
        => /\ last'.resp.status = 400
           /\ "location" \notin DOMAIN last'.resp.headers
           /\ StoresUnchanged

C12_ClientErrorsMutateNothing == [][C12_ClientErrorStep]_vars

\* a callback without a code that names a pending session was answered 400 and
\* the session is still pending
C12_Witness ==
    /\ last.op = "callback"
    /\ Missing(last.req.code)
    /\ last.req.state \in DOMAIN pendingAuth
    /\ last.resp.status = 400

\* the worker itself refused the bearer credential of a request to /mcp
BearerRefused(l) == l.op = "mcp" /\ ~l.backend.sent /\ l.resp.status # 500

\* the response body is a JSON-RPC object with a structured error
StructuredError(resp) ==
    /\ resp.body.kind = "json"
    /\ "error" \in DOMAIN resp.body.obj
    /\ DOMAIN resp.body.obj.error = {"code", "message"}

\* C13 (as claimed): every bearer error on /mcp, a missing or malformed
\* header as well as an unknown or expired token, is a 401 with a structured
\* error object and a WWW-Authenticate header.
C13_BearerErrorsChallenge ==
    BearerRefused(last)
      => /\ last.resp.status = 401
         /\ StructuredError(last.resp)
         /\ "www-authenticate" \in DOMAIN last.resp.headers

\* C14 (as claimed): the error code of the 401 for a missing or malformed
\* Authorization header differs from the error code of the 401 for an unknown
\* or expired token.  Checked on two consecutive refusals, one of each kind.
C14_RefusalPair ==
    ( /\ BearerRefused(last) /\ ~IsBearer(last.req)
      /\ BearerRefused(last') /\ IsBearer(last'.req) )
      => last.resp.body.obj.error.code # last'.resp.body.obj.error.code

C14_DistinctErrorCodes == [][C14_RefusalPair]_vars

\* C15: POST /token with grant_type=authorization_code and a code that was
\* never minted, was redeemed before, or has expired is answered 400
\* invalid_grant; no token is minted and the store is unchanged.
C15_DeadCodeStep ==
    (last'.op = "token" /\ IsCodeRedemption(last'.req)) =>
        LET c == PresentedCode(last'.req)
            key == "code:" \o c
            unknown == c \notin DOMAIN mintedCodes
            consumed == c \in DOMAIN mintedCodes /\ RedemptionsOf(c) # {}
            expired == key \in DOMAIN tokens /\ tokens[key].expiresAt < now
        IN  (unknown \/ consumed \/ expired)
              => /\ last'.resp.status = 400
                 /\ last'.resp.body = Json([error |-> "invalid_grant"])
                 /\ tokens' = tokens
                 /\ issuedTokens' = issuedTokens
                 /\ nextUuid' = nextUuid

C15_DeadCodeRejected == [][C15_DeadCodeStep]_vars

\* an access token, which is no code, was presented as a code and refused
C15_Witness ==
    /\ last.op = "token"
    /\ IsCodeRedemption(last.req)
    /\ PresentedCode(last.req) \in IssuedAccessTokens
    /\ ("token:" \o PresentedCode(last.req)) \in DOMAIN tokens
    /\ last.resp = InvalidGrant

\* C16 (as claimed): POST /token with grant_type=authorization_code and the
\* code absent or empty is answered 400 invalid_grant.
C16_NoCodeIsInvalidGrant ==
    ( /\ last.op = "token"
      /\ last.req.method = "POST"
      /\ ParseParams(last.req.contentType, last.req.body).ok
      /\ PresentedGrant(last.req) = "authorization_code"
      /\ Missing(PresentedCode(last.req)) )
      => /\ last.resp.status = 400
         /\ last.resp.body = Json([error |-> "invalid_grant"])

\* grant_types_supported of the server metadata
GrantTypesSupported == {"authorization_code", "refresh_token"}

\* C17: POST /token with a grant_type that is not a supported one is answered
\* 400 unsupported_grant_type; no token is minted and no code is deleted, even
\* when the request carries a live code.
C17_UnsupportedGrantStep ==
    ( /\ last'.op = "token"
      /\ last'.req.method = "POST"
      /\ ParseParams(last'.req.contentType, last'.req.body).ok
      /\ PresentedGrant(last'.req) \notin GrantTypesSupported )
      => /\ last'.resp.status = 400
         /\ last'.resp.body = Json([error |-> "unsupported_grant_type"])
         /\ tokens' = tokens
         /\ issuedTokens' = issuedTokens
         /\ nextUuid' = nextUuid

C17_UnsupportedGrantRejected == [][C17_UnsupportedGrantStep]_vars

\* a client_credentials request carrying a live code was refused and the code
\* is still live
C17_Witness ==
    /\ last.op = "token"
    /\ last.req.method = "POST"
    /\ PresentedGrant(last.req) = "client_credentials"
    /\ ~CodeInvalid(tokens, "code:" \o PresentedCode(last.req), now)
    /\ last.resp = UnsupportedGrantType

\* C18: a request to /token with a method other than POST is rejected whatever
\* its body is, readable or not; it redeems no code and mints no token.
C18_MethodStep ==
    (last'.op = "token" /\ last'.req.method # "POST")
      => /\ last'.resp.status = 405
         /\ tokens' = tokens
         /\ issuedTokens' = issuedTokens
         /\ nextUuid' = nextUuid

C18_OnlyPostAccepted == [][C18_MethodStep]_vars

\* a GET carrying a live code was refused and the code is still live
C18_Witness ==
    /\ last.op = "token"
    /\ last.req.method = "GET"
    /\ PresentedGrant(last.req) = "authorization_code"
    /\ ~CodeInvalid(tokens, "code:" \o PresentedCode(last.req), now)
    /\ last.resp.status = 405

\* the parameter sets a client may send, and the two encodings of one
GrantTypes == {"authorization_code", "client_credentials", "refresh_token", Null}
Codes == {Null, "", "junk"} \cup DOMAIN mintedCodes
FormEncoded(grantType, code) ==
    TokenRequest("POST", FormType, TokenBody("form", grantType, code, Null, Null))
JsonEncoded(grantType, code) ==
    TokenRequest("POST", JsonType, TokenBody("json", grantType, code, Null, Null))

RefreshKeys(r) == { p \o r : p \in {"", "refresh:", "refresh_token:", "token:", "code:"} }

\* C20 (as claimed): after a successful redemption the code is gone, the store
\* holds the new access token and the new refresh token, both bound to the
\* code's principal, and the response says token_type=Bearer and gives
\* expires_in in seconds.
C20_RedemptionStoresBoth ==
    (last.op = "token" /\ last.resp.status = 200) =>
        LET granted == last.resp.body.obj
            c == PresentedCode(last.req)
            principal == mintedCodes[c].login
        IN  /\ ("code:" \o c) \notin DOMAIN tokens
            /\ ("token:" \o granted.access_token) \in DOMAIN tokens
            /\ tokens["token:" \o granted.access_token].userId = principal
            /\ \E k \in RefreshKeys(granted.refresh_token) :
                  /\ k \in DOMAIN tokens
                  /\ tokens[k].userId = principal
            /\ granted.token_type = "Bearer"
            /\ granted.expires_in * 1000
                 = tokens["token:" \o granted.access_token].expiresAt - now

\* the entries of an allow-list text: the maximal comma-free stretches
Entries(text) ==
    { SubSeq(text, i, j) : <<i, j>> \in
        { p \in (1..(Len(text) + 1)) \X (0..Len(text)) :
            /\ p[2] >= p[1] - 1
            /\ p[1] = 1 \/ text[p[1] - 1] = ","
            /\ p[2] = Len(text) \/ text[p[2] + 1] = ","
            /\ \A k \in p[1]..p[2] : text[k] # "," } }

\* the entry without its surrounding blanks
Stripped(entry) ==
    LET inner == { k \in 1..Len(entry) : entry[k] # " " }
    IN  IF inner = {} THEN <<>>
        ELSE SubSeq(entry, CHOOSE a \in inner : \A k \in inner : a <= k,
                           CHOOSE b \in inner : \A k \in inner : b >= k)

\* equal but for the case of the letters
CasePairs == { {"a", "A"}, {"b", "B"} }
EqualFolded(x, y) ==
    /\ Len(x) = Len(y)
    /\ \A k \in 1..Len(x) : x[k] = y[k] \/ {x[k], y[k]} \in CasePairs

\* C21: the allow-list check admits a login iff some entry of the configured
\* text, trimmed of surrounding blanks, equals the login up to letter case.
C21_AllowListCaseInsensitive ==
    last.op = "includes" =>
        ( last.resp <=> \E e \in Entries(env.ALLOWED_USERS) :
                            EqualFolded(Stripped(e), last.identity.login) )

\* a login was admitted that no entry of the text equals as written
C21_Witness ==
    /\ last.op = "includes"
    /\ last.resp = TRUE
    /\ last.identity.login # <<>>
    /\ \A e \in Entries(env.ALLOWED_USERS) :
          e # last.identity.login /\ Stripped(e) # last.identity.login

\* every id a session can get
AuthIds == { Uuid(n) : n \in 1..MaxIds }

\* C22 (as claimed): every /callback request that waits for the identity
\* provider is eventually answered, whether or not the provider answers.
C22_EveryCallbackAnswered ==
    \A a \in AuthIds : (CallbacksOf(a) # {}) ~> (CallbacksOf(a) = {})

\* C23 (as claimed): no /callback and no /mcp request ends in an unhandled
\* failure; a server-side error the gateway itself answers with, which a
\* failed upstream call is, is a 502 or 504 with a structured error.
C23_UpstreamFailureAnswered ==
    ( /\ last.op \in {"callback", "mcp"}
      /\ last.resp.body.kind # "backend"
      /\ last.resp.status >= 500 )
      => /\ last.resp.status \in {502, 504}
         /\ StructuredError(last.resp)

\* the request answered by the step was an OPTIONS request
IsOptionsRequest(l) ==
    /\ l.op # "none"
    /\ "method" \in DOMAIN l.req
    /\ l.req.method = "OPTIONS"

\* C24: an OPTIONS request to any path gets the CORS preflight response,
\* with or without credentials, and the step that answers it leaves sessions,
\* codes and tokens unchanged and sends nothing to the identity provider or
\* the backend.
C24_PreflightStep ==
    IsOptionsRequest(last') =>
        /\ last'.resp.status = 204
        /\ "access-control-allow-origin" \in DOMAIN last'.resp.headers
        /\ ~last'.backend.sent
        /\ StoresUnchanged

C24_PreflightFrame == [][C24_PreflightStep]_vars

\* an OPTIONS request to /mcp without credentials got the preflight response
\* while a token that would have been forwarded is live
C24_Witness ==
    /\ last.op = "options"
    /\ last.req.path = "/mcp"
    /\ "authorization" \notin DOMAIN last.req.inner.headers
    /\ last.resp.status = 204
    /\ \E t \in IssuedAccessTokens : ~BearerInvalid(tokens, "token:" \o t, now)

\* C25, state part: at most one callback is verifying for a session, the
\* session is gone from the store while it does, and at most one code is
\* minted for the session.
C25_OneWinner ==
    \A a \in DOMAIN createdSessions :
        /\ Cardinality(CallbacksOf(a)) <= 1
        /\ CallbacksOf(a) # {} => a \notin DOMAIN pendingAuth
        /\ Cardinality(CodesOf(a)) <= 1

\* C25, step part: a callback that arrives while another one with the same
\* correlation id is verifying sees session-not-found and mints nothing.
C25_LoserStep ==
    \A a \in DOMAIN createdSessions :
        ( /\ CallbacksOf(a) # {}
          /\ callbacks' = callbacks
          /\ last'.op = "callback"
          /\ last'.req.state = a
          /\ ~Missing(last'.req.code) )
          => /\ last'.resp = SessionNotFound
             /\ mintedCodes' = mintedCodes
             /\ tokens' = tokens

\* C25: of concurrent callbacks with one correlation id exactly one finds
\* the session, which is deleted before verification starts; every other one
\* sees session-not-found; at most one code is minted per session.
C25_CallbackRaceHasOneWinner == [](C25_OneWinner) /\ [][C25_LoserStep]_vars

\* a callback was refused while the callback that won its session is still
\* verifying
C25_Witness ==
    /\ last.op = "callback"
    /\ last.resp = SessionNotFound
    /\ CallbacksOf(last.req.state) # {}

\* the code is in the store and past its expiry
CodeExpired(c) ==
    /\ ("code:" \o c) \in DOMAIN tokens
    /\ tokens["code:" \o c].expiresAt < now

\* C27, step part: per flow instance, the session is created once, a callback
\* that finds it consumes it, it never becomes pending again, once its
\* callback is over (whatever the outcome) nothing more happens for it, and a
\* code that was redeemed or has expired yields no further token.
C27_FlowStep ==
    \A a \in DOMAIN createdSessions :
        /\ a \in DOMAIN createdSessions' /\ createdSessions'[a] = createdSessions[a]
        /\ (a \in DOMAIN pendingAuth /\ CallbacksOf(a)' # {}) => a \notin DOMAIN pendingAuth'
        /\ a \notin DOMAIN pendingAuth => a \notin DOMAIN pendingAuth'
        /\ (a \notin DOMAIN pendingAuth /\ CallbacksOf(a) = {})
             => /\ CallbacksOf(a)' = {}
                /\ CodesOf(a)' = CodesOf(a)
        /\ \A c \in CodesOf(a) :
              (RedemptionsOf(c) # {} \/ CodeExpired(c))
                 => RedemptionsOf(c)' = RedemptionsOf(c)

\* C27, state part: a flow instance has at most one code and the code at most
\* one token response.
C27_AtMostOnce ==
    \A a \in DOMAIN createdSessions :
        /\ Cardinality(CodesOf(a)) <= 1
        /\ \A c \in CodesOf(a) : Cardinality(RedemptionsOf(c)) <= 1

\* C27: every transition of the flow is taken at most once per flow instance
\* and failure, denial and expiry are terminal.
C27_FlowTransitionsOnce == [](C27_AtMostOnce) /\ [][C27_FlowStep]_vars

\* the first callback of a flow ended without a code, and a later callback
\* with the same correlation id was refused
C27_Witness ==
    /\ last.op = "callback"
    /\ last.resp = SessionNotFound
    /\ last.req.state \in DOMAIN createdSessions
    /\ CallbacksOf(last.req.state) = {}
    /\ CodesOf(last.req.state) = {}

\* C28: a step mints a code only as the end of a callback that has already
\* exchanged the external code and now has an identifier that is on the
\* allow-list; a callback that ends without an identifier (no token, no
\* identifier, or an earlier failure) mints nothing and does not redirect.
C28_VerifiedStep ==
    /\ mintedCodes' # mintedCodes =>
          \E cb \in callbacks :
              /\ cb.awaiting = "user"
              /\ cb \notin callbacks'
              /\ last'.op = "callback"
              /\ last'.req = cb.req
              /\ last'.identity.known
              /\ last'.identity.login # <<>>
              /\ OnAllowList(last'.identity.login)
              /\ \A c \in DOMAIN mintedCodes' \ DOMAIN mintedCodes :
                    /\ mintedCodes'[c].login = last'.identity.login
                    /\ mintedCodes'[c].authId = cb.req.state
    /\ (last'.op = "callback" /\ ~last'.identity.known) =>
          /\ mintedCodes' = mintedCodes
          /\ tokens' = tokens
          /\ last'.resp.status \in {400, 500}
          /\ "location" \notin DOMAIN last'.resp.headers

C28_CodeOnlyAfterVerification == [][C28_VerifiedStep]_vars

\* the exchange returned no token: the callback failed and its session has
\* no code
C28_Witness ==
    /\ last.op = "callback"
    /\ last.resp.status = 400
    /\ last.resp.body.parts[1] = "GitHub OAuth failed: "
    /\ last.req.state \in DOMAIN createdSessions
    /\ CodesOf(last.req.state) = {}

\* C29: the correlation id of a session, presented as the code at /token or
\* as the bearer token at /mcp, is refused like an unknown value.
C29_CorrelationIdNoCapability ==
    /\ ( /\ last.op = "token"
         /\ IsCodeRedemption(last.req)
         /\ PresentedCode(last.req) \in DOMAIN createdSessions )
        => last.resp = InvalidGrant
    /\ ( /\ last.op = "mcp"
         /\ IsBearer(last.req)
         /\ BearerOf(last.req) \in DOMAIN createdSessions )
        => /\ last.resp = InvalidToken
           /\ ~last.backend.sent

\* the correlation id of a pending session was presented as a bearer token
\* and refused
C29_Witness ==
    /\ last.op = "mcp"
    /\ IsBearer(last.req)
    /\ BearerOf(last.req) \in DOMAIN pendingAuth
    /\ last.resp = InvalidToken

\* the headers that concern one connection only
HopByHop == {"host", "connection", "keep-alive", "transfer-encoding"}

\* C30 (as claimed): the request sent to the backend carries no hop-by-hop
\* header and no authorization header of the inbound request, and carries
\* every other inbound header as it came.
C30_HopByHopStripped ==
    (last.op = "mcp" /\ last.backend.sent) =>
        /\ DOMAIN last.backend.headers \cap (HopByHop \cup {"authorization"}) = {}
        /\ \A h \in DOMAIN last.req.headers \ (HopByHop \cup {"authorization", "x-mcp-secret"}) :
              /\ h \in DOMAIN last.backend.headers
              /\ last.backend.headers[h] = last.req.headers[h]

\* the /token requests waiting for their body that present code c
RacersOf(c) == { r \in callbacks : r.awaiting = "body" /\ PresentedCode(r.req) = c }

\* C26, state part: a code has at most one token response.
C26_OneRedemption ==
    \A c \in DOMAIN mintedCodes : Cardinality(RedemptionsOf(c)) <= 1

\* C26, step part: when a request is answered with a token, its code was live
\* and is gone, and every request still waiting with the same code will get
\* invalid_grant; a request answered after its code was redeemed gets
\* invalid_grant and no token.
C26_RaceStep ==
    (last'.op = "token" /\ IsCodeRedemption(last'.req)) =>
        LET c == PresentedCode(last'.req)
        IN  /\ last'.resp.status = 200 =>
                /\ ~CodeInvalid(tokens, "code:" \o c, now)
                /\ ("code:" \o c) \notin DOMAIN tokens'
                /\ \A r \in callbacks' :
                      (r.awaiting = "body" /\ PresentedCode(r.req) = c)
                        => TokenOutcome(r.req, tokens', now', nextUuid').resp
                             = InvalidGrant
            /\ RedemptionsOf(c) # {} =>
                /\ last'.resp = InvalidGrant
                /\ issuedTokens' = issuedTokens
                /\ tokens' = tokens

\* C26: of concurrent POST /token requests presenting one live code at most
\* one gets an access token and the others get invalid_grant.
C26_TokenRaceHasOneWinner == [](C26_OneRedemption) /\ [][C26_RaceStep]_vars

\* a request was answered with a token while another request presenting the
\* same code is still waiting for its body
C26_Witness ==
    /\ last.op = "token"
    /\ last.resp.status = 200
    /\ RacersOf(PresentedCode(last.req)) # {}

\* C31, step part: a step that answers a /mcp request, forwarded or refused,
\* leaves every session, code and token as it was and draws no identifier.
C31_ProxyStep ==
    last'.op = "mcp" =>
        /\ tokens' = tokens
        /\ pendingAuth' = pendingAuth
        /\ callbacks' = callbacks
        /\ nextUuid' = nextUuid
        /\ mintedCodes' = mintedCodes
        /\ issuedTokens' = issuedTokens

\* C31: the proxy only reads the store: no /mcp request, accepted or
\* rejected, adds, removes or changes a session, a code or a token.
C31_ProxyOnlyReads == [][C31_ProxyStep]_vars

\* a /mcp request was refused for its expired token, and the expired entry
\* is still stored
C31_Witness ==
    /\ last.op = "mcp"
    /\ IsBearer(last.req)
    /\ last.resp.status = 401
    /\ ("token:" \o BearerOf(last.req)) \in DOMAIN tokens
    /\ tokens["token:" \o BearerOf(last.req)].expiresAt < now

\* the keys the token store can hold
StoreKeys == { "code:" \o Uuid(n) : n \in 1..MaxIds } \cup { "token:" \o Uuid(n) : n \in 1..MaxIds }

\* C32 (as claimed): every keyed entry is eventually removed from the store:
\* a code or access token that has expired leaves the token store, and a
\* pending session older than its TTL leaves the session store.
C32_EveryEntryRemoved ==
    /\ \A k \in StoreKeys :
          (k \in DOMAIN tokens /\ tokens[k].expiresAt < now) ~> (k \notin DOMAIN tokens)
    /\ \A a \in AuthIds :
          (a \in DOMAIN pendingAuth /\ now > createdSessions[a].createdAt + SessionTtlMs)
             ~> (a \notin DOMAIN pendingAuth)

\* the strings a response body is built from
Mentioned(resp) ==
    CASE resp.body.kind = "text" -> { resp.body.parts[i] : i \in DOMAIN resp.body.parts }
      [] resp.body.kind = "json" ->
           IF "jsonrpc" \in DOMAIN resp.body.obj
           THEN {resp.body.obj.jsonrpc, resp.body.obj.id, resp.body.obj.error.message}
           ELSE { resp.body.obj[f] : f \in DOMAIN resp.body.obj \ {"expires_in"} }
      [] OTHER -> {}

\* the configured secrets, the identity provider's token, and every code and
\* token the gateway has made
Secrets ==
    {env.MCP_SECRET, env.GITHUB_CLIENT_SECRET}
      \cup ({ r.access_token : r \in GitHubTokenResponses } \ {Null})
      \cup DOMAIN mintedCodes \cup IssuedAccessTokens \cup IssuedRefreshTokens

\* the code a request to the demo worker's /callback carried
EchoedCode(l) == IF l.req.code = Null THEN {} ELSE {l.req.code}

\* C33: no error response the gateway builds mentions the backend secret, the
\* identity provider's client secret or token, or a code or token of the
\* store; the demo worker's /callback answer shows no such value other than
\* the code its own request carried.
C33_ErrorBodiesHoldNoSecret ==
    /\ ( /\ last.op \in {"authorize", "callback", "token", "mcp", "fetch"}
         /\ last.resp.status >= 400
         /\ last.resp.body.kind # "backend" )
         => Mentioned(last.resp) \cap Secrets = {}
    /\ (worker = "demo" /\ last.op = "callback")
         => (Mentioned(last.resp) \cap Secrets) \subseteq EchoedCode(last)

\* the identity provider refused the code exchange, which carried the client
\* secret, and the callback was answered with the provider's error text
C33_Witness ==
    /\ last.op = "callback"
    /\ worker = "github"
    /\ last.resp.status = 400
    /\ last.resp.body.kind = "text"
    /\ "bad_verification_code" \in Mentioned(last.resp)

\* C34: codes and access tokens live in disjoint key namespaces: no key of
\* the store names both, a code presented as bearer at /mcp is refused and
\* not forwarded, and an access token presented as code at /token gets
\* invalid_grant.
C34_NamespacesDisjoint ==
    /\ \A c \in DOMAIN mintedCodes :
          /\ c \notin IssuedAccessTokens
          /\ ("token:" \o c) \notin DOMAIN tokens
    /\ \A t \in IssuedAccessTokens : ("code:" \o t) \notin DOMAIN tokens
    /\ (last.op = "mcp" /\ IsBearer(last.req) /\ BearerOf(last.req) \in DOMAIN mintedCodes)
          => /\ last.resp.status = 401
             /\ ~last.backend.sent
    /\ ( /\ last.op = "token"
         /\ IsCodeRedemption(last.req)
         /\ PresentedCode(last.req) \in IssuedAccessTokens )
          => last.resp = InvalidGrant

\* a code that could still be redeemed was presented as bearer at /mcp and
\* refused
C34_Witness ==
    /\ last.op = "mcp"
    /\ IsBearer(last.req)
    /\ ~CodeInvalid(tokens, "code:" \o BearerOf(last.req), now)
    /\ last.resp.status = 401

\* C35: the X-MCP-Secret header of every request sent to the backend is the
\* configured MCP_SECRET, whatever X-MCP-Secret the client's request carried.
C35_SecretOverwritten ==
    (last.op = "mcp" /\ last.backend.sent) =>
        /\ "x-mcp-secret" \in DOMAIN last.backend.headers
        /\ last.backend.headers["x-mcp-secret"] = env.MCP_SECRET

\* the OAuthProvider worker forwarded a request that came with an
\* X-MCP-Secret of the client's own
C35_Witness ==
    /\ last.op = "mcp"
    /\ worker = "provider"
    /\ last.backend.sent
    /\ HeadersGet(last.req.headers, "x-mcp-secret") \notin {Null, env.MCP_SECRET}

\* the token responses that granted the bearer token of a /mcp request
GrantsOf(req) == { i \in issuedTokens : i.access_token = BearerOf(req) }

\* C36: the expires_in a token response announces is the lifetime /mcp
\* enforces: it is 3600 seconds, and a token issued at time t is forwarded at
\* every time up to and including t + 3600 s and refused after it.
C36_LifetimeAsAnnounced ==
    /\ \A i \in issuedTokens : i.expires_in = 3600
    /\ (last.op = "mcp" /\ IsBearer(last.req)) =>
          \A i \in GrantsOf(last.req) :
              /\ now <= i.issuedAt + i.expires_in * 1000 => last.backend.sent
              /\ now > i.issuedAt + i.expires_in * 1000
                    => (last.resp.status = 401 /\ ~last.backend.sent)

\* a token issued after the clock had moved was forwarded in the last
\* millisecond of its announced lifetime
C36_Witness ==
    /\ last.op = "mcp"
    /\ IsBearer(last.req)
    /\ last.backend.sent
    /\ \E i \in GrantsOf(last.req) :
          /\ i.issuedAt > 0
          /\ now = i.issuedAt + i.expires_in * 1000

\* a token was refused one millisecond after its announced lifetime
C36_WitnessLate ==
    /\ last.op = "mcp"
    /\ IsBearer(last.req)
    /\ last.resp.status = 401
    /\ \E i \in GrantsOf(last.req) : now = i.issuedAt + i.expires_in * 1000 + 1

\* C37: with ALLOWED_USERS empty or blank nobody is admitted: no code is
\* ever minted, no callback ends in a redirect, an identity with a login is
\* answered 403, and one without a login is answered 400 before the
\* allow-list is looked at.
C37_BlankListAdmitsNobody ==
    /\ mintedCodes = EmptyMap
    /\ tokens = EmptyMap
    /\ last.op = "callback" =>
          /\ last.resp.status \in {400, 403, 500}
          /\ last.identity.known => (last.resp.status = 403 /\ last.identity.login # <<>>)

\* the identity provider returned no login, and the callback was answered 400
\* although the one entry of the blank allow-list is the empty string
C37_Witness ==
    /\ last.op = "callback"
    /\ last.resp.status = 400
    /\ last.resp.body = Text(<<"Failed to get GitHub user info">>)
    /\ AllowedUsers(env.ALLOWED_USERS) = << <<>> >>
    /\ IsAllowedUser(env.ALLOWED_USERS, <<>>)

\* C38, step part: every issued access token is in the store with the
\* principal and the expiry it was issued with, and the step leaves its entry
\* as it is; a /mcp request that presents it before its expiry has passed is
\* forwarded.
C38_IssuedTokenStep ==
    /\ \A i \in issuedTokens :
          LET key == "token:" \o i.access_token
          IN  /\ key \in DOMAIN tokens
              /\ tokens[key] = [userId |-> i.userId, expiresAt |-> i.issuedAt + 3600000]
              /\ key \in DOMAIN tokens'
              /\ tokens'[key] = tokens[key]
    /\ (last'.op = "mcp" /\ IsBearer(last'.req)) =>
          \A i \in issuedTokens :
              (i.access_token = BearerOf(last'.req) /\ now <= i.issuedAt + 3600000)
                 => last'.backend.sent

\* C38: an issued access token is never removed or altered by any operation,
\* and is accepted at /mcp on every use until its expiry, whatever requests
\* (new logins of the same principal included) happen in between.
C38_IssuedTokenStays == [][C38_IssuedTokenStep]_vars

\* the token of the first login was forwarded after the same principal had
\* logged in again and been issued a second token
C38_Witness ==
    /\ last.op = "mcp"
    /\ IsBearer(last.req)
    /\ last.backend.sent
    /\ \E i, j \in issuedTokens :
          /\ i.access_token = BearerOf(last.req)
          /\ j.userId = i.userId
          /\ j.issuedAt > i.issuedAt

====
